---- MODULE Spec2Model ----
(***************************************************************************)
(* TraceWeatherCEP: a Front Gateway (service-a, POST /cep) that validates  *)
(* a postal code and forwards it to a Resolver Service (service-b,         *)
(* POST /weather), which looks the city up at ViaCEP, the temperature at   *)
(* WeatherAPI, and answers in three scales.  Both emit OpenTelemetry spans.*)
(*                                                                         *)
(* One behaviour of the model is one caller request, entering at either    *)
(* service, with every answer the collaborators can give.                  *)
(***************************************************************************)
EXTENDS Integers, Sequences, FiniteSets, TLC

VARIABLES
    entry,      \* which endpoint the caller posts to: "gateway" or "direct"
    body,       \* the caller's request body
    apiKey,     \* os.Getenv("WEATHERAPI_KEY") in service-b
    gpc,        \* position of the POST /cep handler
    greq,       \* service-a's decoded CEPRequest.CEP
    gresp,      \* the response service-a wrote (a set: empty until written)
    toB,        \* service-a's POST to service-b, in flight
    fromB,      \* service-b's response, on its way to service-a
    rpc,        \* position of the POST /weather handler
    rbody,      \* the request body service-b received
    rreq,       \* service-b's decoded CEPRequest.CEP
    city,       \* the city getCityFromCEP returned
    rresp,      \* the response service-b wrote (a set: empty until written)
    cityOut,    \* what ViaCEP answered (a set: empty until it answered)
    weatherOut, \* what WeatherAPI answered (a set: empty until it answered)
    tr,         \* the spans of both tracers, and the order they were ended in
    calls,      \* every outbound HTTP call issued, in order
    inflight    \* the outbound calls issued and not yet returned

vars == <<entry, body, apiKey, gpc, greq, gresp, toB, fromB, rpc, rbody, rreq,
          city, rresp, cityOut, weatherOut, tr, calls, inflight>>

gatewayVars == <<gpc, greq, gresp>>
resolverVars == <<rpc, rbody, rreq, city, rresp, cityOut, weatherOut>>
inputVars == <<entry, body, apiKey>>

-----------------------------------------------------------------------------
(* Bounds and inputs *)

\* longest postal-code string a caller sends
MaxLen == 9

DigitChars == {"0", "1", "2", "3", "4", "5", "6", "7", "8", "9"}
SampleDigits == {"0", "9"}
SampleOthers == {"a", "-", " ", "\n"}

Uniform(d, n) == [i \in 1..n |-> d]

\* strings of one repeated digit, and the same with one character replaced
CEPInputs ==
    {Uniform(d, n) : d \in SampleDigits, n \in 0..MaxLen}
    \cup UNION {{[Uniform(d, n) EXCEPT ![p] = c] :
                    d \in SampleDigits, p \in 1..n,
                    c \in SampleDigits \cup SampleOthers} : n \in 1..MaxLen}

\* request bodies: not JSON at all, JSON whose "cep" is not a string, and
\* JSON objects (a missing "cep" decodes like the empty string)
Bodies ==
    {[json |-> "malformed", cep |-> <<>>], [json |-> "wrongtype", cep |-> <<>>]}
    \cup {[json |-> "object", cep |-> s] : s \in CEPInputs}

-----------------------------------------------------------------------------
(* regexp.MatchString(`^\d{8}$`, cep) *)

\* the pattern of service-a
PatternA == [anchorStart |-> TRUE, class |-> DigitChars, count |-> 8, anchorEnd |-> TRUE]
\* the pattern of service-b
PatternB == [anchorStart |-> TRUE, class |-> DigitChars, count |-> 8, anchorEnd |-> TRUE]

\* does s[i..] start with n characters of class cls
RECURSIVE MatchClass(_, _, _, _)
MatchClass(s, i, cls, n) ==
    IF n = 0 THEN TRUE
    ELSE /\ i <= Len(s)
         /\ s[i] \in cls
         /\ MatchClass(s, i + 1, cls, n - 1)

\* `$` as Perl and PCRE read it: at the end, or before a final newline
EndOfTextOrFinalNewline(s, i) ==
    \/ i = Len(s) + 1
    \/ i = Len(s) /\ s[i] = "\n"

\* `$` without the m flag in Go's regexp: only at the end of the text
EndOfText(s, i) == i = Len(s) + 1

\* the match of pattern p starting at position i
MatchAt(p, s, i) ==
    /\ MatchClass(s, i, p.class, p.count)
    /\ p.anchorEnd => EndOfText(s, i + p.count)

MatchString(p, s) ==
    \E i \in 1..(Len(s) + 1) :
        /\ p.anchorStart => i = 1
        /\ MatchAt(p, s, i)

\* a validator whose pattern lost its anchors: `\d{8}` anywhere in the text
validateCEPUnanchored(cep) ==
    MatchString([PatternA EXCEPT !.anchorStart = FALSE, !.anchorEnd = FALSE], cep)

\* service-a
validateCEP(cep) == MatchString(PatternA, cep)
\* service-b
validateCEPB(cep) == MatchString(PatternB, cep)

-----------------------------------------------------------------------------
(* JSON in and out *)

\* c.ShouldBindJSON(&req): an error unless the body is a JSON object whose
\* "cep", when present, is a string
ShouldBindJSON(b) ==
    IF b.json = "object" THEN [err |-> "", cep |-> b.cep]
    ELSE [err |-> "json: cannot unmarshal", cep |-> <<>>]

\* json.Marshal(req) of a CEPRequest
MarshalCEPRequest(cep) == [json |-> "object", cep |-> cep]

ErrorResponse(msg) == [message |-> msg]

Response(status, b) == [status |-> status, body |-> b]

celsiusToFahrenheit(celsius) == (celsius * 18) \div 10 + 3200
celsiusToKelvin(celsius) == celsius + 27300

\* temperatures are in hundredths of a degree
WeatherResponse(c, tempC) ==
    [city |-> c, temp_C |-> tempC,
     temp_F |-> celsiusToFahrenheit(tempC), temp_K |-> celsiusToKelvin(tempC)]

-----------------------------------------------------------------------------
(* Spans *)

SpanNames == {"validate-cep", "call-service-b",
              "weather-endpoint", "viacep-lookup", "weather-lookup"}

NoSpan == [status |-> "unstarted", trace |-> "", parent |-> "", ends |-> 0,
           errors |-> <<>>, attrs |-> {}]

\* tracer.Start(ctx, name): a child of the span in ctx, in its trace
StartSpan(t, name, ctx) ==
    [t EXCEPT !.spans[name] =
        [status |-> "open", trace |-> ctx.trace, parent |-> ctx.span, ends |-> 0,
         errors |-> <<>>, attrs |-> {}]]

\* the context tracer.Start returns along with the span
SpanCtx(t, name) == [trace |-> t.spans[name].trace, span |-> name]

RecordError(t, name, err) ==
    [t EXCEPT !.spans[name].errors = Append(@, err)]

SetAttributes(t, name, keys) ==
    [t EXCEPT !.spans[name].attrs = @ \cup keys]

\* a span that is never ended
EndSpanMissing(t, name) == t

\* span.End()
EndSpan(t, name) ==
    [t EXCEPT !.spans[name].status = "ended",
              !.spans[name].ends = @ + 1,
              !.ended = Append(@, name)]

\* otel.GetTextMapPropagator(): initTracer sets the tracer provider only, so
\* the global propagator is the default one, which reads and writes nothing
GlobalTextMapPropagator == "noop"

\* otelhttp.NewTransport: the propagator writes the context into the headers
Inject(ctx) ==
    IF GlobalTextMapPropagator = "tracecontext" THEN {ctx} ELSE {}

\* otelgin.Middleware: the propagator reads the remote context from the
\* headers; without one the request starts a trace of its own
Extract(headers, fresh) ==
    IF GlobalTextMapPropagator = "tracecontext" /\ headers # {}
    THEN CHOOSE c \in headers : TRUE
    ELSE [trace |-> fresh, span |-> ""]

-----------------------------------------------------------------------------
(* Outbound calls *)

Call(from, to, arg) == [from |-> from, to |-> to, arg |-> arg]

Init ==
    /\ entry \in {"gateway", "direct"}
    /\ body \in Bodies
    /\ apiKey \in {"", "secret"}
    /\ gpc = "idle"
    /\ greq = <<>>
    /\ gresp = {}
    /\ toB = {}
    /\ fromB = {}
    /\ rpc = "idle"
    /\ rbody = {}
    /\ rreq = <<>>
    /\ city = ""
    /\ rresp = {}
    /\ cityOut = {}
    /\ weatherOut = {}
    /\ tr = [spans |-> [n \in SpanNames |-> NoSpan], ended |-> <<>>]
    /\ calls = <<>>
    /\ inflight = {}

-----------------------------------------------------------------------------
(* service-a: POST /cep *)

\* the request reaches the handler: tracer.Start(ctx, "validate-cep")
GatewayAccept ==
    /\ entry = "gateway"
    /\ gpc = "idle"
    /\ tr' = StartSpan(tr, "validate-cep", Extract({}, "trace-a"))
    /\ gpc' = "bind"
    /\ UNCHANGED <<inputVars, greq, gresp, toB, fromB, resolverVars, calls, inflight>>

\* ShouldBindJSON and validateCEP, with the deferred span.End() on return
GatewayBind ==
    /\ gpc = "bind"
    /\ LET r == ShouldBindJSON(body) IN
       IF r.err # ""
       THEN /\ tr' = EndSpan(RecordError(tr, "validate-cep", r.err), "validate-cep")
            /\ gresp' = {Response(422, ErrorResponse("invalid zipcode"))}
            /\ gpc' = "done"
            /\ greq' = greq
       ELSE IF ~validateCEP(r.cep)
       THEN /\ tr' = EndSpan(tr, "validate-cep")
            /\ gresp' = {Response(422, ErrorResponse("invalid zipcode"))}
            /\ gpc' = "done"
            /\ greq' = r.cep
       ELSE /\ tr' = SetAttributes(tr, "validate-cep", {"cep"})
            /\ gresp' = gresp
            /\ gpc' = "call"
            /\ greq' = r.cep
    /\ UNCHANGED <<inputVars, toB, fromB, resolverVars, calls, inflight>>

\* tracer.Start(ctx, "call-service-b") and client.Do(httpReq) sending the POST
GatewayCallServiceB ==
    /\ gpc = "call"
    /\ LET t1 == StartSpan(tr, "call-service-b", SpanCtx(tr, "validate-cep")) IN
       /\ tr' = t1
       /\ toB' = {[headers |-> Inject(SpanCtx(t1, "call-service-b")),
                   body |-> MarshalCEPRequest(greq)]}
    /\ calls' = Append(calls, Call("service-a", "service-b", greq))
    /\ inflight' = inflight \cup {Call("service-a", "service-b", greq)}
    /\ gpc' = "await"
    /\ UNCHANGED <<inputVars, greq, gresp, fromB, resolverVars>>

\* both deferred ends of the handler, callSpan before span
GatewayReturn(t) == EndSpan(EndSpan(t, "call-service-b"), "validate-cep")

\* client.Do returns an error: connection refused, or the 10 s timeout
GatewayDoError ==
    /\ gpc = "await"
    /\ tr' = GatewayReturn(RecordError(tr, "call-service-b", "Post: context deadline exceeded"))
    /\ gresp' = {Response(500, ErrorResponse("internal server error"))}
    /\ inflight' = inflight \ {Call("service-a", "service-b", greq)}
    /\ gpc' = "done"
    /\ UNCHANGED <<inputVars, greq, toB, fromB, resolverVars, calls>>

\* io.ReadAll(resp.Body) fails after the status line arrived
GatewayReadError ==
    /\ gpc = "await"
    /\ fromB # {}
    /\ tr' = GatewayReturn(RecordError(tr, "call-service-b", "unexpected EOF"))
    /\ gresp' = {Response(500, ErrorResponse("internal server error"))}
    /\ inflight' = inflight \ {Call("service-a", "service-b", greq)}
    /\ fromB' = {}
    /\ gpc' = "done"
    /\ UNCHANGED <<inputVars, greq, toB, resolverVars, calls>>

\* a gateway that answers 200 whatever service-b answered
RelayAlwaysOK(resp) == Response(200, resp.body)

\* c.Data(resp.StatusCode, "application/json", body)
Relay(resp) == Response(resp.status, resp.body)

\* the response of service-b was read in full and is written out
GatewayRelay ==
    /\ gpc = "await"
    /\ \E m \in fromB :
        /\ tr' = GatewayReturn(SetAttributes(tr, "call-service-b", {"http.status_code"}))
        /\ gresp' = {Relay(m)}
    /\ inflight' = inflight \ {Call("service-a", "service-b", greq)}
    /\ fromB' = {}
    /\ gpc' = "done"
    /\ UNCHANGED <<inputVars, greq, toB, resolverVars, calls>>

-----------------------------------------------------------------------------
(* service-b: the two lookups *)

\* what ViaCEP can answer to GET /ws/<cep>/json/; "malformed" is any payload
\* json.Unmarshal rejects for ViaCEPResponse, an "erro" that is not a JSON
\* boolean included
ViaCEPOutcomes ==
    {[transport |-> "error", read |-> "ok", json |-> "object", erro |-> FALSE, localidade |-> ""],
     [transport |-> "ok", read |-> "error", json |-> "object", erro |-> FALSE, localidade |-> ""],
     [transport |-> "ok", read |-> "ok", json |-> "malformed", erro |-> FALSE, localidade |-> ""],
     [transport |-> "ok", read |-> "ok", json |-> "object", erro |-> TRUE, localidade |-> ""],
     [transport |-> "ok", read |-> "ok", json |-> "object", erro |-> FALSE, localidade |-> ""],
     [transport |-> "ok", read |-> "ok", json |-> "object", erro |-> FALSE, localidade |-> "Sao Paulo"],
     [transport |-> "ok", read |-> "ok", json |-> "object", erro |-> FALSE, localidade |-> "Vitoria"]}

\* getCityFromCEP from client.Do on: the city, the error ("" is nil), whether
\* the error was recorded on the span, and the attributes set
getCityFromCEPResult(o) ==
    IF o.transport = "error"
    THEN [city |-> "", err |-> "Get viacep: dial tcp: i/o timeout", recorded |-> TRUE, attrs |-> {}]
    ELSE IF o.read = "error"
    THEN [city |-> "", err |-> "unexpected EOF", recorded |-> TRUE, attrs |-> {}]
    ELSE IF o.json = "malformed"
    THEN [city |-> "", err |-> "invalid character '<' looking for beginning of value",
          recorded |-> TRUE, attrs |-> {}]
    ELSE IF o.erro
    THEN [city |-> "", err |-> "CEP not found", recorded |-> FALSE, attrs |-> {"cep.not_found"}]
    ELSE [city |-> o.localidade, err |-> "", recorded |-> FALSE, attrs |-> {"city", "state"}]

\* what WeatherAPI can answer to GET /v1/current.json: code 0 is no "error"
\* object in the payload
WeatherOutcomes ==
    {[transport |-> "error", status |-> 0, read |-> "ok", json |-> "object", code |-> 0, temp_c |-> 0],
     [transport |-> "ok", status |-> 401, read |-> "ok", json |-> "object", code |-> 2006, temp_c |-> 0],
     [transport |-> "ok", status |-> 403, read |-> "ok", json |-> "object", code |-> 1006, temp_c |-> 0],
     [transport |-> "ok", status |-> 200, read |-> "error", json |-> "object", code |-> 0, temp_c |-> 0],
     [transport |-> "ok", status |-> 200, read |-> "ok", json |-> "malformed", code |-> 0, temp_c |-> 0],
     [transport |-> "ok", status |-> 400, read |-> "ok", json |-> "object", code |-> 1006, temp_c |-> 0],
     [transport |-> "ok", status |-> 400, read |-> "ok", json |-> "object", code |-> 1003, temp_c |-> 0],
     [transport |-> "ok", status |-> 200, read |-> "ok", json |-> "object", code |-> 0, temp_c |-> 2850],
     [transport |-> "ok", status |-> 200, read |-> "ok", json |-> "object", code |-> 0, temp_c |-> -500]}

\* getWeather from client.Do on: the temperature and the error ("" is nil);
\* every error is recorded on the span
getWeatherResult(o) ==
    IF o.transport = "error"
    THEN [tempC |-> 0, err |-> "Get weatherapi: context deadline exceeded"]
    ELSE IF o.status = 401 \/ o.status = 403
    THEN [tempC |-> 0, err |-> "weatherapi auth error"]
    ELSE IF o.read = "error"
    THEN [tempC |-> 0, err |-> "unexpected EOF"]
    ELSE IF o.json = "malformed"
    THEN [tempC |-> 0, err |-> "unexpected end of JSON input"]
    ELSE IF o.code # 0
    THEN IF o.code = 1006
         THEN [tempC |-> 0, err |-> "city not found"]
         ELSE [tempC |-> 0, err |-> "weatherapi error"]
    ELSE [tempC |-> o.temp_c, err |-> ""]

\* a credential check that lets the empty key through
MissingCredentialIgnored(key) == FALSE

\* apiKey == ""
MissingCredential(key) == key = ""

\* a handler that goes on whatever the lookup returned
LookupFailedIgnored(res) == FALSE

\* err != nil after either lookup
LookupFailed(res) == res.err # ""

\* a handler that answers 404 to every failed city lookup
CityErrorAlwaysNotFound(err) == Response(404, ErrorResponse("can not find zipcode"))

\* the handler's answer to a failed city lookup
CityErrorResponse(err) ==
    IF err = "CEP not found"
    THEN Response(404, ErrorResponse("can not find zipcode"))
    ELSE Response(500, ErrorResponse("internal server error"))

\* a handler that puts the cause into the body
WeatherErrorLeaks(err) == Response(500, ErrorResponse(err))

\* the handler's answer to a failed weather lookup
WeatherErrorResponse(err) ==
    IF err = "city not found"
    THEN Response(404, ErrorResponse("can not find zipcode"))
    ELSE Response(500, ErrorResponse("internal server error"))

\* the handler records on its own span every lookup error it answers 500 to
HandlerRecord(t, resp, err) ==
    IF resp.status = 500 THEN RecordError(t, "weather-endpoint", err) ELSE t

-----------------------------------------------------------------------------
(* service-b: POST /weather *)

\* c.JSON(status, ...): the response is written, and travels back to
\* service-a when the request came from there
Respond(resp) ==
    /\ rresp' = {resp}
    /\ fromB' = IF entry = "gateway" THEN {resp} ELSE {}

\* a direct caller's request reaches the handler
ResolverAcceptDirect ==
    /\ entry = "direct"
    /\ rpc = "idle"
    /\ tr' = StartSpan(tr, "weather-endpoint", Extract({}, "trace-b"))
    /\ rbody' = {body}
    /\ rpc' = "bind"
    /\ UNCHANGED <<inputVars, gatewayVars, toB, fromB, rreq, city, rresp, cityOut,
                   weatherOut, calls, inflight>>

\* service-a's POST reaches the handler
ResolverAcceptForwarded ==
    /\ rpc = "idle"
    /\ \E m \in toB :
        /\ tr' = StartSpan(tr, "weather-endpoint", Extract(m.headers, "trace-b"))
        /\ rbody' = {m.body}
    /\ toB' = {}
    /\ rpc' = "bind"
    /\ UNCHANGED <<inputVars, gatewayVars, fromB, rreq, city, rresp, cityOut,
                   weatherOut, calls, inflight>>

\* ShouldBindJSON and validateCEP, with the deferred span.End() on return
ResolverBind ==
    /\ rpc = "bind"
    /\ \E b \in rbody :
       LET r == ShouldBindJSON(b) IN
       IF r.err # ""
       THEN /\ tr' = EndSpan(RecordError(tr, "weather-endpoint", r.err), "weather-endpoint")
            /\ Respond(Response(422, ErrorResponse("invalid zipcode")))
            /\ rpc' = "done"
            /\ rreq' = rreq
       ELSE IF ~validateCEPB(r.cep)
       THEN /\ tr' = EndSpan(tr, "weather-endpoint")
            /\ Respond(Response(422, ErrorResponse("invalid zipcode")))
            /\ rpc' = "done"
            /\ rreq' = r.cep
       ELSE /\ tr' = SetAttributes(tr, "weather-endpoint", {"cep"})
            /\ UNCHANGED <<rresp, fromB>>
            /\ rpc' = "city"
            /\ rreq' = r.cep
    /\ UNCHANGED <<inputVars, gatewayVars, toB, rbody, city, cityOut, weatherOut,
                   calls, inflight>>

\* getCityFromCEP up to client.Do: span "viacep-lookup" and the GET
getCityFromCEPCall ==
    /\ rpc = "city"
    /\ tr' = SetAttributes(StartSpan(tr, "viacep-lookup", SpanCtx(tr, "weather-endpoint")),
                           "viacep-lookup", {"cep"})
    /\ calls' = Append(calls, Call("service-b", "viacep", rreq))
    /\ inflight' = inflight \cup {Call("service-b", "viacep", rreq)}
    /\ rpc' = "viacep"
    /\ UNCHANGED <<inputVars, gatewayVars, toB, fromB, rbody, rreq, city, rresp,
                   cityOut, weatherOut>>

\* ViaCEP answers; getCityFromCEP returns and the handler maps its result
getCityFromCEPReturn ==
    /\ rpc = "viacep"
    /\ \E o \in ViaCEPOutcomes :
       LET res == getCityFromCEPResult(o)
           t1 == IF res.recorded THEN RecordError(tr, "viacep-lookup", res.err) ELSE tr
           t2 == EndSpan(SetAttributes(t1, "viacep-lookup", res.attrs), "viacep-lookup")
       IN
       /\ cityOut' = {o}
       /\ IF LookupFailed(res)
          THEN LET resp == CityErrorResponse(res.err) IN
               /\ tr' = EndSpan(HandlerRecord(t2, resp, res.err), "weather-endpoint")
               /\ Respond(resp)
               /\ rpc' = "done"
               /\ city' = city
          ELSE /\ tr' = t2
               /\ UNCHANGED <<rresp, fromB>>
               /\ rpc' = "weather"
               /\ city' = res.city
    /\ inflight' = inflight \ {Call("service-b", "viacep", rreq)}
    /\ UNCHANGED <<inputVars, gatewayVars, toB, rbody, rreq, weatherOut, calls>>

\* getWeather with WEATHERAPI_KEY unset: an error before any request is made
getWeatherNoKey ==
    /\ rpc = "weather"
    /\ MissingCredential(apiKey)
    /\ LET err == "WEATHERAPI_KEY not set"
           t1 == SetAttributes(StartSpan(tr, "weather-lookup", SpanCtx(tr, "weather-endpoint")),
                               "weather-lookup", {"city"})
           t2 == EndSpan(RecordError(t1, "weather-lookup", err), "weather-lookup")
           resp == WeatherErrorResponse(err)
       IN
       /\ tr' = EndSpan(HandlerRecord(t2, resp, err), "weather-endpoint")
       /\ Respond(resp)
    /\ rpc' = "done"
    /\ UNCHANGED <<inputVars, gatewayVars, toB, rbody, rreq, city, cityOut, weatherOut,
                   calls, inflight>>

\* getWeather up to client.Do: span "weather-lookup" and the GET
getWeatherCall ==
    /\ rpc = "weather"
    /\ ~MissingCredential(apiKey)
    /\ tr' = SetAttributes(StartSpan(tr, "weather-lookup", SpanCtx(tr, "weather-endpoint")),
                           "weather-lookup", {"city"})
    /\ calls' = Append(calls, Call("service-b", "weatherapi", city))
    /\ inflight' = inflight \cup {Call("service-b", "weatherapi", city)}
    /\ rpc' = "weatherapi"
    /\ UNCHANGED <<inputVars, gatewayVars, toB, fromB, rbody, rreq, city, rresp,
                   cityOut, weatherOut>>

\* WeatherAPI answers; getWeather returns and the handler maps its result
getWeatherReturn ==
    /\ rpc = "weatherapi"
    /\ \E o \in WeatherOutcomes :
       LET res == getWeatherResult(o)
           t1 == IF res.err # ""
                 THEN RecordError(tr, "weather-lookup", res.err)
                 ELSE SetAttributes(tr, "weather-lookup", {"temperature.celsius"})
           t2 == EndSpan(t1, "weather-lookup")
       IN
       /\ weatherOut' = {o}
       /\ IF LookupFailed(res)
          THEN LET resp == WeatherErrorResponse(res.err) IN
               /\ tr' = EndSpan(HandlerRecord(t2, resp, res.err), "weather-endpoint")
               /\ Respond(resp)
          ELSE /\ tr' = EndSpan(SetAttributes(t2, "weather-endpoint",
                                    {"response.city", "response.temp_c",
                                     "response.temp_f", "response.temp_k"}),
                                "weather-endpoint")
               /\ Respond(Response(200, WeatherResponse(city, res.tempC)))
    /\ rpc' = "done"
    /\ inflight' = inflight \ {Call("service-b", "weatherapi", city)}
    /\ UNCHANGED <<inputVars, gatewayVars, toB, rbody, rreq, city, cityOut, calls>>

Next ==
    \/ GatewayAccept
    \/ GatewayBind
    \/ GatewayCallServiceB
    \/ GatewayDoError
    \/ GatewayReadError
    \/ GatewayRelay
    \/ ResolverAcceptDirect
    \/ ResolverAcceptForwarded
    \/ ResolverBind
    \/ getCityFromCEPCall
    \/ getCityFromCEPReturn
    \/ getWeatherNoKey
    \/ getWeatherCall
    \/ getWeatherReturn

Spec == Init /\ [][Next]_vars

-----------------------------------------------------------------------------
(* The properties *)

\* exactly 8 characters, each a decimal digit
IsEightDigits(s) == Len(s) = 8 /\ \A i \in 1..Len(s) : s[i] \in DigitChars

\* a body that fails to decode, or whose postal code is not 8 digits
InvalidBody(b) == b.json # "object" \/ ~IsEightDigits(b.cep)

InvalidZipcode == Response(422, ErrorResponse("invalid zipcode"))
CanNotFindZipcode == Response(404, ErrorResponse("can not find zipcode"))
InternalServerError == Response(500, ErrorResponse("internal server error"))

IssuedBy(service) == {i \in 1..Len(calls) : calls[i].from = service}
IssuedTo(target) == {i \in 1..Len(calls) : calls[i].to = target}

\* the outcomes of the two lookups, read off what the providers answered
CityAnswered(o) == o.transport = "ok" /\ o.read = "ok" /\ o.json = "object"
CityNotFound == \E o \in cityOut : CityAnswered(o) /\ o.erro
CitySuccess == \E o \in cityOut : CityAnswered(o) /\ ~o.erro
CityFailure == \E o \in cityOut : ~CityAnswered(o)

WeatherAnswered(o) ==
    o.transport = "ok" /\ o.status \notin {401, 403} /\ o.read = "ok" /\ o.json = "object"
WeatherCityNotFound == \E o \in weatherOut : WeatherAnswered(o) /\ o.code = 1006
WeatherSuccess == \E o \in weatherOut : WeatherAnswered(o) /\ o.code = 0
WeatherFailure ==
    \/ \E o \in weatherOut : ~WeatherAnswered(o) \/ o.code \notin {0, 1006}
    \/ CitySuccess /\ apiKey = "" /\ tr.spans["weather-lookup"].status = "ended"

\* service-b finished a request that passed its validation
ResolverDoneValid == rpc = "done" /\ \A b \in rbody : ~InvalidBody(b)

\* service-a read service-b's response in full and wrote its own
GatewayRelayed ==
    gpc = "done" /\ "http.status_code" \in tr.spans["call-service-b"].attrs

\* C1: once the Gateway has read the Resolver's response in full, the
\* response it writes has exactly the Resolver's status code and body.
C1_Passthrough == GatewayRelayed => gresp = rresp /\ Cardinality(gresp) = 1

C1_Witness == GatewayRelayed /\ CanNotFindZipcode \in gresp

\* C2: a request whose body fails to decode or whose postal code fails the
\* validator is answered 422 "invalid zipcode" by either service, and that
\* service issues no outbound call for it.
C2_ValidationFirst ==
    /\ (entry = "gateway" /\ InvalidBody(body)) =>
          /\ IssuedBy("service-a") = {}
          /\ toB = {}
          /\ gpc \in {"idle", "bind", "done"}
          /\ gpc = "done" => gresp = {InvalidZipcode}
    /\ \A b \in rbody : InvalidBody(b) =>
          /\ IssuedBy("service-b") = {}
          /\ inflight = {}
          /\ rpc \in {"bind", "done"}
          /\ rpc = "done" => rresp = {InvalidZipcode}

C2_Witness ==
    /\ entry = "gateway" /\ gpc = "done"
    /\ body.json = "object" /\ Len(body.cep) > 8
    /\ gresp = {InvalidZipcode}

\* C3: for a valid postal code the Resolver answers 404 "can not find
\* zipcode" exactly when the city lookup ends NotFound, or it succeeds and
\* the weather lookup ends CityNotFound (code 1006).
C3_NotFoundMapping ==
    ResolverDoneValid =>
        /\ (\E r \in rresp : r.status = 404)
              <=> (CityNotFound \/ (CitySuccess /\ WeatherCityNotFound))
        /\ \A r \in rresp : r.status = 404 => r = CanNotFindZipcode

C3_Witness == ResolverDoneValid /\ CitySuccess /\ WeatherCityNotFound

\* C4: when a lookup fails other than by not-found, the Resolver answers
\* 500 with exactly the generic message, the error is on the
\* "weather-endpoint" span when the handler has returned, and the body does
\* not carry the cause.
C4_UpstreamFailure ==
    (ResolverDoneValid /\ (CityFailure \/ WeatherFailure)) =>
        LET sp == tr.spans["weather-endpoint"] IN
        /\ rresp = {InternalServerError}
        /\ sp.status = "ended"
        /\ Len(sp.errors) = 1
        /\ \A r \in rresp : \A i \in 1..Len(sp.errors) : r.body.message # sp.errors[i]

C4_Witness ==
    /\ ResolverDoneValid
    /\ \E o \in weatherOut : o.status = 403
    /\ rresp = {InternalServerError}

\* C5 as stated: with the credential unset, every request with a valid
\* postal code is answered 500, whatever the Postal Lookup Provider answers.
C5_Original == (ResolverDoneValid /\ apiKey = "") => rresp = {InternalServerError}

\* C5 as amended: with the credential unset, a request with a valid postal
\* code is answered 404 when the Postal Lookup Provider reports it unknown
\* and 500 in every other case, and the Weather Provider is never called.
C5_MissingCredential ==
    (ResolverDoneValid /\ apiKey = "") =>
        /\ CityNotFound => rresp = {CanNotFindZipcode}
        /\ ~CityNotFound => rresp = {InternalServerError}
        /\ IssuedTo("weatherapi") = {}

C5_Witness ==
    /\ ResolverDoneValid /\ apiKey = "" /\ CitySuccess
    /\ rresp = {InternalServerError}
    /\ tr.spans["weather-lookup"].errors = <<"WEATHERAPI_KEY not set">>

\* C6: every response of the Front Gateway has status 200, 422 or 500,
\* never 404.
C6_GatewayStatuses == \A r \in gresp : r.status \in {200, 422, 500}

\* C7: both validators accept a string exactly when it is 8 characters,
\* all decimal digits, and so agree on every input; the handlers go past
\* validation for those strings only.
C7_Validator ==
    /\ validateCEP(body.cep) = IsEightDigits(body.cep)
    /\ validateCEPB(body.cep) = IsEightDigits(body.cep)
    /\ validateCEP(body.cep) = validateCEPB(body.cep)
    /\ (entry = "gateway" /\ gpc \notin {"idle", "bind"}) =>
          ((gresp # {InvalidZipcode}) <=> ~InvalidBody(body))
    /\ (entry = "direct" /\ rpc \notin {"idle", "bind"}) =>
          ((rresp # {InvalidZipcode}) <=> ~InvalidBody(body))

C7_Witness ==
    /\ body.json = "object" /\ Len(body.cep) = 9 /\ body.cep[9] = "\n"
    /\ IsEightDigits(SubSeq(body.cep, 1, 8))
    /\ entry = "direct" /\ rresp = {InvalidZipcode}

\* n is a descendant of a, following parent links at most k times
RECURSIVE IsDescendant(_, _, _)
IsDescendant(n, a, k) ==
    /\ k > 0
    /\ n \in SpanNames
    /\ \/ tr.spans[n].parent = a
       \/ IsDescendant(tr.spans[n].parent, a, k - 1)

Started(n) == tr.spans[n].status # "unstarted"

\* C8: the Gateway's POST carries the context of "call-service-b", so the
\* Resolver's spans for a forwarded request are in the trace of
\* "validate-cep" and descend from "call-service-b", itself a child of
\* "validate-cep".
C8_TracePropagation ==
    entry = "gateway" =>
        /\ \A m \in toB : m.headers = {SpanCtx(tr, "call-service-b")}
        /\ Started("call-service-b") => tr.spans["call-service-b"].parent = "validate-cep"
        /\ \A n \in {"weather-endpoint", "viacep-lookup", "weather-lookup"} :
              Started(n) =>
                 /\ tr.spans[n].trace = tr.spans["validate-cep"].trace
                 /\ IsDescendant(n, "call-service-b", Cardinality(SpanNames))

PositionOf(seq, x) == CHOOSE i \in 1..Len(seq) : seq[i] = x

\* C9: every started span is ended exactly once by the time its handler or
\* lookup function has returned, and a child is ended before its parent.
C9_SpanLifecycle ==
    /\ \A n \in SpanNames :
          /\ tr.spans[n].ends = Cardinality({i \in 1..Len(tr.ended) : tr.ended[i] = n})
          /\ tr.spans[n].ends <= 1
          /\ tr.spans[n].status = "ended" <=> tr.spans[n].ends = 1
          /\ \A p \in SpanNames :
                (tr.spans[n].parent = p /\ tr.spans[p].status = "ended") =>
                    /\ tr.spans[n].status = "ended"
                    /\ PositionOf(tr.ended, n) < PositionOf(tr.ended, p)
    /\ gpc = "done" =>
          /\ tr.spans["validate-cep"].status = "ended"
          /\ tr.spans["call-service-b"].status # "open"
    /\ rpc = "done" =>
          /\ tr.spans["weather-endpoint"].status = "ended"
          /\ tr.spans["viacep-lookup"].status # "open"
          /\ tr.spans["weather-lookup"].status # "open"
    /\ tr.spans["viacep-lookup"].status = "open" => rpc = "viacep"
    /\ tr.spans["weather-lookup"].status = "open" => rpc = "weatherapi"

C9_Witness ==
    /\ gpc = "done" /\ rpc = "done"
    /\ \A n \in SpanNames : tr.spans[n].status = "ended"

\* C10: the Weather Provider is called only after the city lookup has
\* succeeded, with the city it returned; each service has at most one
\* upstream call in flight, and no target is called twice.
C10_Sequential ==
    /\ \A i \in IssuedTo("weatherapi") :
          /\ CitySuccess
          /\ \A o \in cityOut : calls[i].arg = o.localidade
          /\ \E j \in IssuedTo("viacep") : j < i
          /\ \A c \in inflight : c.to # "viacep"
    /\ (CityNotFound \/ CityFailure) => IssuedTo("weatherapi") = {}
    /\ \A s \in {"service-a", "service-b"} :
          Cardinality({c \in inflight : c.from = s}) <= 1
    /\ \A t \in {"service-b", "viacep", "weatherapi"} : Cardinality(IssuedTo(t)) <= 1

C10_Witness ==
    /\ rpc = "done"
    /\ IssuedTo("weatherapi") # {}
    /\ \E o \in cityOut : o.localidade = "Vitoria"
====
